---- MODULE Spec2Model ----
(***************************************************************************)
(* Job scheduling and concurrency core of the MP3 downloader:              *)
(* src/job_manager.py (JobManager), src/models.py (JobState, DownloadItem) *)
(* and src/db.py (the persisted snapshot).                                 *)
(*                                                                         *)
(* One job id is followed from the construction of the registry on.  Every *)
(* `with self._lock:` block of the source is one atomic action; code that  *)
(* runs between two such blocks is its own action.  Threads: the API       *)
(* caller (ctl), the background routine started by create (runner), the    *)
(* workers of _run_selected_downloads, and one output reader per           *)
(* subprocess.  Subprocesses are named by the thread that owns them: 0 is  *)
(* the runner, 1..NumWorkers the workers.                                  *)
(***************************************************************************)
EXTENDS Integers, Sequences, FiniteSets, TLC

\* ---------------------------------------------------------------- bounds
\* number of selected item URLs handed to create_job_with_urls
NumItems == 1
\* _SELECTED_DOWNLOAD_CONCURRENCY, the number of worker threads, as set by
\* MP3DL_SELECTED_CONCURRENCY=2
NumWorkers == 2
\* largest collection size reported by metadata or by an "item i of n" line
MaxTotal == 2
\* number of calls of the public API on the job after its creation
MaxOps == 2
\* number of selected item URLs of a job that is followed with no call of the
\* public API after its creation
NumUnattended == 2
\* percentages carried by "[download] NN%" lines
Pcts == {50}
\* job.progress is kept in units of 1/PctUnit percent, so that the float
\* division by total_items is exact for every total the model reaches
PctUnit == 2 * 2 * 3
Full == 100 * PctUnit

Workers == 1 .. NumWorkers
Runner == 0
Owners == {Runner} \cup Workers
Indices == 0 .. (NumItems - 1)

Terminal == {"done", "error", "canceled"}

Min(a, b) == IF a < b THEN a ELSE b
Max(a, b) == IF a > b THEN a ELSE b

VARIABLES
    job,        \* the JobState object of the job id (fields below)
    registered, \* job id \in self._jobs
    db,         \* the row of the job id in the jobs table, or NoRow
    disk,       \* which directories of the job exist
    lock,       \* "free", or "dead": self._lock held by a thread that waits for it
    procs,      \* self._procs[job_id]: owners of the tracked Popen objects
    alive,      \* owners whose subprocess is running
    signalled,  \* owners whose running subprocess received SIGTERM
    exitCode,   \* exit code of an owner's subprocess not yet collected by wait()
    runner,     \* the thread running _run_job: pc and locals (urls: len(video_urls))
    workers,    \* the worker threads of _run_selected_downloads: pc and locals
    q,          \* the work queue (deque of item indices)
    ctl,        \* the API caller: pc and locals of the call in progress
    hist        \* history of the job: what has happened so far

vars == <<job, registered, db, disk, lock, procs, alive, signalled, exitCode,
          runner, workers, q, ctl, hist>>

\* ------------------------------------------------------------ data model
DownloadItem == [status |-> "pending", progress |-> 0]

JobState(n, fs) ==
    [status |-> "queued", message |-> IF n = 0 THEN "created" ELSE "created_selected",
     progress |-> 0, total_items |-> n, current_item |-> 0,
     current_item_progress |-> 0, cancel_requested |-> FALSE,
     paused |-> FALSE, paused_items |-> {},
     download_items |-> [i \in 1 .. n |-> DownloadItem],
     output_dir |-> "none", zip_path |-> FALSE, logs |-> <<>>,
     force_single |-> fs]

NoJob == [JobState(0, "unset") EXCEPT !.status = "none", !.message = "none"]

LockFree == lock = "free"

\* the columns of the jobs table that save_job writes from the object: there
\* is no column for paused_items and none for logs
Row(j) ==
    [status |-> j.status, progress |-> j.progress, message |-> j.message,
     output_dir |-> j.output_dir, zip_path |-> j.zip_path,
     total_items |-> j.total_items, current_item |-> j.current_item,
     current_item_progress |-> j.current_item_progress,
     cancel_requested |-> IF j.cancel_requested THEN 1 ELSE 0,
     paused |-> IF j.paused THEN 1 ELSE 0,
     force_single |-> j.force_single,
     download_items_json |-> j.download_items]

\* no row of the job id in the table
NoRow == [Row(NoJob) EXCEPT !.status = "absent"]

\* the table when the database cannot be used (file locked, disk full, schema
\* damaged): every db call raises
Unusable == [Row(NoJob) EXCEPT !.status = "unusable"]

\* db.save_job raises: on a database that cannot be used, and on a JobState
\* without the force_single attribute it reads (AttributeError)
save_job_raises(j, row) == j.force_single = "unset" \/ row = Unusable

\* the table after db.save_job: nothing is written by a call that raises
save_job(j, row) == IF save_job_raises(j, row) THEN row ELSE Row(j)

\* the exception that leaves _save_job if it called db.save_job bare
_save_job_raised_NoExcept(j, row) ==
    IF save_job_raises(j, row) THEN "Exception" ELSE "none"

\* the exception that leaves _save_job: `except Exception` prints and drops it
_save_job_raised(j, row) == "none"

\* the parameters of JobState.__init__: the fields of the dataclass
JobStateFields ==
    {"id", "url", "status", "created_at", "updated_at", "progress", "message",
     "logs", "output_dir", "zip_path", "playlist_title", "thumbnail_url",
     "total_items", "current_item", "current_item_progress",
     "cancel_requested", "download_items", "paused", "paused_items"}

\* the keyword arguments _row_to_job passes to JobState(...)
RowKeywords ==
    {"id", "url", "status", "created_at", "updated_at", "progress", "message",
     "output_dir", "zip_path", "playlist_title", "thumbnail_url",
     "total_items", "current_item", "current_item_progress",
     "cancel_requested", "download_items", "paused", "force_single"}

\* _row_to_job: the result of a call is the exception it raised, or the object
\* it returned.  JobState(...) raises TypeError on a keyword that is not one
\* of its parameters; the fields that get no keyword take their defaults.
_row_to_job(row) ==
    IF ~(RowKeywords \subseteq JobStateFields)
    THEN [raised |-> "TypeError", value |-> NoJob]
    ELSE [raised |-> "none",
          value |-> [status |-> row.status, progress |-> row.progress,
                     message |-> row.message, output_dir |-> row.output_dir,
                     zip_path |-> row.zip_path, total_items |-> row.total_items,
                     current_item |-> row.current_item,
                     current_item_progress |-> row.current_item_progress,
                     cancel_requested |-> row.cancel_requested # 0,
                     paused |-> row.paused # 0, paused_items |-> {},
                     download_items |-> row.download_items_json,
                     logs |-> <<>>, force_single |-> "unset"]]

\* db.load_job: None when the table has no row of the id
load_job(row) ==
    IF row = Unusable THEN [raised |-> "OperationalError", value |-> NoJob]
    ELSE IF row = NoRow THEN [raised |-> "none", value |-> NoJob] ELSE _row_to_job(row)

\* db.load_all_jobs: the list of the jobs of all rows
load_all_jobs(row) ==
    IF row = Unusable THEN [raised |-> "OperationalError", value |-> <<>>]
    ELSE IF row = NoRow THEN [raised |-> "none", value |-> <<>>]
    ELSE LET r == _row_to_job(row)
         IN  IF r.raised # "none" THEN [raised |-> r.raised, value |-> <<>>]
             ELSE [raised |-> "none", value |-> <<r.value>>]

\* ------------------------------------------------------ progress algebra
Clamp(p) == Max(0, Min(100, p))

_update_progress(j) ==
    IF j.total_items <= 0 THEN j
    ELSE IF j.current_item <= 0 THEN j
    ELSE LET item_idx == Min(j.current_item, j.total_items)
             item_pct == Clamp(j.current_item_progress)
             overall == (((item_idx - 1) * 100 + item_pct) * PctUnit) \div j.total_items
         IN  [j EXCEPT !.progress = Max(j.progress, Min(Full, overall))]

\* ItemPct without the branch of the paused items
ItemPct_PausedStored(it) ==
    IF it.status \in {"done", "skipped"} THEN 100
    ELSE Clamp(it.progress)

ItemPct(it) ==
    IF it.status \in {"done", "skipped"} THEN 100
    ELSE IF it.status = "downloading" THEN Clamp(it.progress)
    ELSE IF it.status = "paused" THEN 0
    ELSE Clamp(it.progress)

RECURSIVE SumPct(_, _)
SumPct(items, n) == IF n = 0 THEN 0 ELSE ItemPct(items[n]) + SumPct(items, n - 1)

RECURSIVE MaxActive(_, _)
MaxActive(items, n) ==
    IF n = 0 THEN 0
    ELSE IF items[n].status = "downloading"
         THEN Max(Clamp(items[n].progress), MaxActive(items, n - 1))
         ELSE MaxActive(items, n - 1)

DoneCount(items) ==
    Cardinality({i \in DOMAIN items : items[i].status \in {"done", "skipped"}})

\* _update_progress_from_items without the max() of line 507
_update_progress_from_items_NoMax(j) ==
    IF j.total_items <= 0 THEN j
    ELSE IF Len(j.download_items) = 0 THEN j
    ELSE LET total == Max(1, j.total_items)
             s == SumPct(j.download_items, Len(j.download_items))
             active_pct == MaxActive(j.download_items, Len(j.download_items))
         IN  [j EXCEPT !.progress = Min(Full, (s * PctUnit) \div total),
                       !.current_item = DoneCount(j.download_items)
                                        + (IF active_pct > 0 THEN 1 ELSE 0),
                       !.current_item_progress = active_pct]

\* _update_progress_from_items adding to job.progress instead of max()
_update_progress_from_items_Add(j) ==
    IF j.total_items <= 0 THEN j
    ELSE IF Len(j.download_items) = 0 THEN j
    ELSE LET total == Max(1, j.total_items)
             s == SumPct(j.download_items, Len(j.download_items))
             active_pct == MaxActive(j.download_items, Len(j.download_items))
         IN  [j EXCEPT !.progress = Min(Full, j.progress + (s * PctUnit) \div total),
                       !.current_item = DoneCount(j.download_items)
                                        + (IF active_pct > 0 THEN 1 ELSE 0),
                       !.current_item_progress = active_pct]

_update_progress_from_items(j) ==
    IF j.total_items <= 0 THEN j
    ELSE IF Len(j.download_items) = 0 THEN j
    ELSE LET total == Max(1, j.total_items)
             s == SumPct(j.download_items, Len(j.download_items))
             active_pct == MaxActive(j.download_items, Len(j.download_items))
         IN  [j EXCEPT !.progress = Max(j.progress, Min(Full, (s * PctUnit) \div total)),
                       !.current_item = DoneCount(j.download_items)
                                        + (IF active_pct > 0 THEN 1 ELSE 0),
                       !.current_item_progress = active_pct]

\* --------------------------------------------------------------- helpers
\* store the job object and note whether a registered job is terminal now
Put(j, h) ==
    /\ job' = j
    /\ hist' = [h EXCEPT !.was_terminal = @ \/ (registered /\ j.status \in Terminal)]

\* the history after one more call of the public API
Called == [hist EXCEPT !.ops = @ + 1]

Idle == [pc |-> "idle", op |-> "none", snap |-> {}, job |-> FALSE,
         out |-> "none", ret |-> "none"]

\* hist.spawned: a subprocess was started; hist.queued_cancel: cancel_job found
\* the job queued; hist.cancel_saw: the status the last cancel_job found;
\* hist.was_terminal: the registered job has had a terminal status;
\* hist.deleted: delete_job has returned; hist.pause_killed: the items whose
\* subprocess pause_job signalled and that no worker has started again;
\* hist.ops: the number of API calls made on the job; hist.found: the status
\* column of the row that the construction of the registry found;
\* hist.invalidated: invalidate_zip has cleared the zip_path of the done job;
\* hist.swept: the status the job had when cleanup_old_jobs called delete_job;
\* hist.pause_signalled: pause_job has signalled the subprocess of the
\* whole-collection download
NoHistory ==
    [spawned |-> FALSE, queued_cancel |-> FALSE, cancel_saw |-> "none",
     was_terminal |-> FALSE, deleted |-> FALSE, pause_killed |-> {}, ops |-> 0,
     found |-> "none", invalidated |-> FALSE, swept |-> "none",
     pause_signalled |-> FALSE]

\* a worker thread outside an iteration of its loop: idx and success are
\* not assigned, or will be assigned again before they are read
Worker(pc) == [pc |-> pc, idx |-> 0, success |-> FALSE]

Init ==
    /\ job = NoJob
    /\ registered = FALSE
    /\ db = NoRow
    /\ disk = [job_dir |-> FALSE, final_dir |-> FALSE]
    /\ lock = "free"
    /\ procs = {}
    /\ alive = {}
    /\ signalled = {}
    /\ exitCode = [o \in Owners |-> "none"]
    /\ runner = [pc |-> "unborn", job |-> FALSE, selected |-> FALSE, urls |-> 0]
    /\ workers = [w \in Workers |-> Worker("unborn")]
    /\ q = <<>>
    /\ ctl = Idle
    /\ hist = NoHistory

\* ------------------------------------------------------------ public API
\* create_job: register the job, save it, start the background thread; an
\* exception leaving _save_job would leave create_job before the thread starts
create_job ==
    /\ ctl.pc = "idle" /\ LockFree
    /\ job.status = "none"
    /\ LET j == JobState(0, "set")
       IN  /\ Put(j, hist)
           /\ db' = save_job(j, db)
           /\ IF _save_job_raised(j, db) = "none"
              THEN /\ runner' = [runner EXCEPT !.pc = "start", !.selected = FALSE]
                   /\ ctl' = [Idle EXCEPT !.ret = "id"]
              ELSE /\ runner' = runner
                   /\ ctl' = [Idle EXCEPT !.ret = "raised"]
    /\ registered' = TRUE
    /\ UNCHANGED <<disk, lock, procs, alive, signalled, exitCode, workers, q>>

\* create_job_with_urls: the JobState is built without a force_single attribute
create_job_with_urls ==
    /\ ctl.pc = "idle" /\ LockFree
    /\ job.status = "none"
    /\ LET j == JobState(NumItems, "unset")
       IN  /\ Put(j, hist)
           /\ db' = save_job(j, db)
           /\ IF _save_job_raised(j, db) = "none"
              THEN /\ runner' = [runner EXCEPT !.pc = "start", !.selected = TRUE,
                                               !.urls = NumItems]
                   /\ ctl' = [Idle EXCEPT !.ret = "id"]
              ELSE /\ runner' = runner
                   /\ ctl' = [Idle EXCEPT !.ret = "raised"]
    /\ registered' = TRUE
    /\ UNCHANGED <<disk, lock, procs, alive, signalled, exitCode, workers, q>>

\* cancel_job's critical section if it moved every job that is not queued to
\* canceling (as the one of delete_job does)
cancel_job_locked_Always(j) ==
    LET c == [j EXCEPT !.cancel_requested = TRUE]
    IN  IF j.status = "queued"
        THEN [c EXCEPT !.status = "canceled", !.message = "canceled"]
        ELSE [c EXCEPT !.status = "canceling", !.message = "canceling"]

\* the body of cancel_job's critical section, as a function of the job
cancel_job_locked(j) ==
    LET c == [j EXCEPT !.cancel_requested = TRUE]
    IN  IF j.status = "queued"
        THEN [c EXCEPT !.status = "canceled", !.message = "canceled"]
        ELSE IF j.status = "running"
        THEN [c EXCEPT !.status = "canceling", !.message = "canceling"]
        ELSE c

cancel_job ==
    /\ ctl.pc = "idle" /\ LockFree /\ hist.ops < MaxOps
    /\ IF ~registered
       THEN /\ ctl' = [Idle EXCEPT !.ret = "false"]
            /\ job' = job
            /\ hist' = Called
       ELSE /\ Put(cancel_job_locked(job),
                   [Called EXCEPT !.queued_cancel = @ \/ job.status = "queued",
                                  !.cancel_saw = job.status])
            /\ ctl' = [Idle EXCEPT !.pc = "terminate", !.op = "cancel"]
    /\ UNCHANGED <<registered, db, disk, lock, procs, alive, signalled, exitCode,
                   runner, workers, q>>

\* the body of pause_job's critical section
pause_job_locked(j) ==
    LET demoted == [i \in DOMAIN j.download_items |->
                      IF j.download_items[i].status = "downloading"
                      THEN [j.download_items[i] EXCEPT !.status = "paused"]
                      ELSE j.download_items[i]]
    IN  _update_progress_from_items(
            [j EXCEPT !.paused = TRUE, !.message = "paused", !.download_items = demoted])

pause_job ==
    /\ ctl.pc = "idle" /\ LockFree /\ hist.ops < MaxOps
    /\ IF ~registered
       THEN /\ ctl' = [Idle EXCEPT !.ret = "false"]
            /\ job' = job
            /\ hist' = Called
       ELSE /\ Put(pause_job_locked(job), Called)
            /\ ctl' = [Idle EXCEPT !.pc = "terminate", !.op = "pause"]
    /\ UNCHANGED <<registered, db, disk, lock, procs, alive, signalled, exitCode,
                   runner, workers, q>>

\* resume_job's critical section if it also withdrew the cancel request
resume_job_locked_Reset(j) ==
    [j EXCEPT !.paused = FALSE, !.message = "resumed", !.cancel_requested = FALSE]

resume_job_locked(j) == [j EXCEPT !.paused = FALSE, !.message = "resumed"]

resume_job ==
    /\ ctl.pc = "idle" /\ LockFree /\ hist.ops < MaxOps
    /\ IF ~registered
       THEN /\ ctl' = [Idle EXCEPT !.ret = "false"]
            /\ job' = job
            /\ hist' = Called
       ELSE /\ Put(resume_job_locked(job), Called)
            /\ ctl' = [Idle EXCEPT !.ret = "true"]
    /\ UNCHANGED <<registered, db, disk, lock, procs, alive, signalled, exitCode,
                   runner, workers, q>>

\* pause_item that pauses the job as well
pause_item_locked_Job(j, item_index) ==
    [j EXCEPT !.paused = TRUE,
              !.paused_items = @ \cup {item_index},
              !.download_items =
                  [i \in DOMAIN @ |->
                      IF i = item_index /\ @[i].status = "pending"
                      THEN [@[i] EXCEPT !.status = "paused"] ELSE @[i]]]

pause_item_locked(j, item_index) ==
    [j EXCEPT !.paused_items = @ \cup {item_index},
              !.download_items =
                  [i \in DOMAIN @ |->
                      IF i = item_index /\ @[i].status = "pending"
                      THEN [@[i] EXCEPT !.status = "paused"] ELSE @[i]]]

pause_item(item_index) ==
    /\ ctl.pc = "idle" /\ LockFree /\ hist.ops < MaxOps
    /\ IF ~registered
       THEN /\ ctl' = [Idle EXCEPT !.ret = "false"]
            /\ job' = job
            /\ hist' = Called
       ELSE /\ Put(pause_item_locked(job, item_index), Called)
            /\ ctl' = [Idle EXCEPT !.ret = "true"]
    /\ UNCHANGED <<registered, db, disk, lock, procs, alive, signalled, exitCode,
                   runner, workers, q>>

\* resume_item that marks the resumed item as fully downloaded
resume_item_locked_Full(j, item_index) ==
    [j EXCEPT !.paused_items = @ \ {item_index},
              !.download_items =
                  [i \in DOMAIN @ |->
                      IF i = item_index /\ @[i].status = "paused"
                      THEN [status |-> "pending", progress |-> 100] ELSE @[i]]]

resume_item_locked(j, item_index) ==
    [j EXCEPT !.paused_items = @ \ {item_index},
              !.download_items =
                  [i \in DOMAIN @ |->
                      IF i = item_index /\ @[i].status = "paused"
                      THEN [@[i] EXCEPT !.status = "pending"] ELSE @[i]]]

resume_item(item_index) ==
    /\ ctl.pc = "idle" /\ LockFree /\ hist.ops < MaxOps
    /\ IF ~registered
       THEN /\ ctl' = [Idle EXCEPT !.ret = "false"]
            /\ job' = job
            /\ hist' = Called
       ELSE /\ Put(resume_item_locked(job, item_index), Called)
            /\ ctl' = [Idle EXCEPT !.ret = "true"]
    /\ UNCHANGED <<registered, db, disk, lock, procs, alive, signalled, exitCode,
                   runner, workers, q>>

\* invalidate_zip: the zip_path of the job is cleared, nothing else is done
invalidate_zip_locked(j) == IF j.zip_path THEN [j EXCEPT !.zip_path = FALSE] ELSE j

\* app.delete_job_track: a file below job.output_dir is unlinked, then
\* invalidate_zip is called
delete_job_track ==
    /\ ctl.pc = "idle" /\ LockFree /\ hist.ops < MaxOps
    /\ registered /\ job.output_dir # "none"
    /\ job' = invalidate_zip_locked(job)
    /\ hist' = [Called EXCEPT !.invalidated = @ \/ (job.status = "done" /\ job.zip_path)]
    /\ ctl' = [Idle EXCEPT !.ret = "ok"]
    /\ UNCHANGED <<registered, db, disk, lock, procs, alive, signalled, exitCode,
                   runner, workers, q>>

\* _terminate_process: where the caller goes on once it returns
TerminateReturn ==
    IF ctl.op = "delete"
    THEN [ctl EXCEPT !.pc = "del_pop", !.snap = {}]
    ELSE [Idle EXCEPT !.ret = "true"]

\* _terminate_process, first half: copy the tracked set under the lock, return
\* if it is empty, else SIGTERM every process of the copy.  A process of the
\* copy that has already exited is not signalled and not waited for.
_terminate_process ==
    /\ ctl.pc = "terminate" /\ LockFree
    /\ IF procs = {}
       THEN /\ ctl' = TerminateReturn
            /\ UNCHANGED <<signalled, hist>>
       ELSE /\ ctl' = [ctl EXCEPT !.pc = "term_wait", !.snap = procs \cap alive]
            /\ signalled' = signalled \cup (procs \cap alive)
            /\ hist' = [hist EXCEPT !.pause_killed =
                           IF ctl.op = "pause"
                           THEN @ \cup {workers[w].idx + 1 : w \in (procs \cap alive) \ {Runner}}
                           ELSE @,
                                     !.pause_signalled =
                           @ \/ (ctl.op = "pause" /\ Runner \in procs \cap alive)]
    /\ UNCHANGED <<job, registered, db, disk, lock, procs, alive, exitCode, runner, workers, q>>

\* _terminate_process, second half: every signalled process has been waited
\* for (a signalled process exits within the grace period); then the whole
\* entry of the job is popped from self._procs under the lock
_terminate_process_pop ==
    /\ ctl.pc = "term_wait" /\ ctl.snap = {} /\ LockFree
    /\ procs' = {}
    /\ ctl' = TerminateReturn
    /\ UNCHANGED <<job, registered, db, disk, lock, alive, signalled, exitCode,
                   runner, workers, q, hist>>

\* delete_job, first critical section: look the job up, remember its output_dir
delete_job ==
    /\ ctl.pc = "idle" /\ LockFree /\ hist.ops < MaxOps
    /\ registered
    /\ hist' = Called
    /\ ctl' = [Idle EXCEPT !.pc = "del_check", !.op = "delete", !.job = registered,
                           !.out = job.output_dir]
    /\ UNCHANGED <<job, registered, db, disk, lock, procs, alive, signalled, exitCode,
                   runner, workers, q>>

\* delete_job: job.status is read outside the lock
delete_job_check ==
    /\ ctl.pc = "del_check"
    /\ ctl' = [ctl EXCEPT !.pc = IF ctl.job /\ job.status \in {"running", "canceling"}
                                 THEN "del_cancel" ELSE "del_pop"]
    /\ UNCHANGED <<job, registered, db, disk, lock, procs, alive, signalled, exitCode,
                   runner, workers, q, hist>>

delete_job_cancel ==
    /\ ctl.pc = "del_cancel" /\ LockFree
    /\ Put([job EXCEPT !.cancel_requested = TRUE, !.status = "canceling",
                       !.message = "canceling"], hist)
    /\ ctl' = [ctl EXCEPT !.pc = "terminate"]
    /\ UNCHANGED <<registered, db, disk, lock, procs, alive, signalled, exitCode,
                   runner, workers, q>>

\* delete_job: remove the job from self._jobs and self._procs
delete_job_pop ==
    /\ ctl.pc = "del_pop" /\ LockFree
    /\ procs' = {}
    /\ registered' = FALSE
    /\ ctl' = [ctl EXCEPT !.pc = "del_purge"]
    /\ UNCHANGED <<job, db, disk, lock, alive, signalled, exitCode, runner,
                   workers, q, hist>>

\* delete_job: delete the row, the job directory and the remembered output_dir
delete_job_purge ==
    /\ ctl.pc = "del_purge"
    /\ db' = IF db = Unusable THEN db ELSE NoRow
    /\ disk' = [job_dir |-> FALSE,
                final_dir |-> IF ctl.out = "final_dir" THEN FALSE ELSE disk.final_dir]
    /\ ctl' = Idle
    /\ hist' = [hist EXCEPT !.deleted = TRUE]
    /\ UNCHANGED <<job, registered, lock, procs, alive, signalled, exitCode, runner, workers, q>>

\* cleanup_old_jobs(max_age_days = 0), critical section: the job is put on
\* jobs_to_delete if its status is terminal (its last update is in the past)
cleanup_old_jobs ==
    /\ ctl.pc = "idle" /\ LockFree /\ hist.ops < MaxOps
    /\ registered
    /\ hist' = Called
    /\ ctl' = IF job.status \in Terminal
              THEN [Idle EXCEPT !.pc = "cleanup", !.op = "cleanup"]
              ELSE [Idle EXCEPT !.ret = "deleted_0"]
    /\ UNCHANGED <<job, registered, db, disk, lock, procs, alive, signalled, exitCode,
                   runner, workers, q>>

\* cleanup_old_jobs, the loop over jobs_to_delete: the job directory is walked
\* and delete_job is called, which starts with its first critical section
cleanup_old_jobs_delete ==
    /\ ctl.pc = "cleanup" /\ LockFree
    /\ hist' = [hist EXCEPT !.swept = IF registered THEN job.status ELSE "gone"]
    /\ ctl' = [Idle EXCEPT !.pc = "del_check", !.op = "delete", !.job = registered,
                           !.out = IF registered THEN job.output_dir ELSE "none"]
    /\ UNCHANGED <<job, registered, db, disk, lock, procs, alive, signalled, exitCode,
                   runner, workers, q>>

\* ------------------------------------------------------------ subprocesses
\* a running subprocess exits: with a non-zero code once signalled, with any
\* code otherwise.  _terminate_process stops waiting for it.
proc_exit(o) ==
    /\ o \in alive
    /\ alive' = alive \ {o}
    /\ signalled' = signalled \ {o}
    /\ \E rc \in (IF o \in signalled THEN {"fail"} ELSE {"ok", "fail"}) :
           exitCode' = [exitCode EXCEPT ![o] = rc]
    /\ ctl' = [ctl EXCEPT !.snap = @ \ {o}]
    /\ UNCHANGED <<job, registered, db, disk, lock, procs, runner, workers,
                   q, hist>>

\* ------------------------------------------------- _run_job (background)
\* _run_job, first critical section: the status is set to running whatever
\* it was
_run_job ==
    /\ runner.pc = "start" /\ LockFree
    /\ IF ~registered
       THEN /\ runner' = [runner EXCEPT !.pc = "end"]
            /\ UNCHANGED <<job, hist>>
       ELSE /\ Put([job EXCEPT !.status = "running"], hist)
            /\ runner' = [runner EXCEPT !.pc = "check_bin"]
    /\ UNCHANGED <<registered, db, disk, lock, procs, alive, signalled, exitCode,
                   workers, q, ctl>>

\* YTDLP_BIN exists
_run_job_check_bin ==
    /\ runner.pc = "check_bin"
    /\ runner' = [runner EXCEPT !.pc = "mkdir"]
    /\ UNCHANGED <<job, registered, db, disk, lock, procs, alive, signalled, exitCode,
                   workers, q, ctl, hist>>

\* YTDLP_BIN does not exist
_run_job_no_bin ==
    /\ runner.pc = "check_bin" /\ LockFree
    /\ IF registered
       THEN Put([job EXCEPT !.status = "error", !.message = "no_ytdlp"], hist)
       ELSE UNCHANGED <<job, hist>>
    /\ runner' = [runner EXCEPT !.pc = "end"]
    /\ UNCHANGED <<registered, db, disk, lock, procs, alive, signalled, exitCode,
                   workers, q, ctl>>

_run_job_mkdir ==
    /\ runner.pc = "mkdir"
    /\ disk' = [disk EXCEPT !.job_dir = TRUE]
    /\ runner' = [runner EXCEPT !.pc = "set_output_dir"]
    /\ UNCHANGED <<job, registered, db, lock, procs, alive, signalled, exitCode,
                   workers, q, ctl, hist>>

\* the local variable job keeps what this lookup returned
_run_job_set_output_dir ==
    /\ runner.pc = "set_output_dir" /\ LockFree
    /\ IF registered
       THEN Put([job EXCEPT !.output_dir = "job_dir"], hist)
       ELSE UNCHANGED <<job, hist>>
    /\ runner' = [runner EXCEPT !.pc = "force_single", !.job = registered]
    /\ UNCHANGED <<registered, db, disk, lock, procs, alive, signalled, exitCode,
                   workers, q, ctl>>

\* `job.force_single` raises AttributeError when the lookup returned None or
\* the JobState was built by create_job_with_urls; the thread dies there
_run_job_force_single ==
    /\ runner.pc = "force_single"
    /\ runner' = [runner EXCEPT !.pc = IF runner.job /\ job.force_single # "unset"
                                       THEN "meta" ELSE "crashed"]
    /\ UNCHANGED <<job, registered, db, disk, lock, procs, alive, signalled, exitCode,
                   workers, q, ctl, hist>>

\* what the metadata fetch can answer
Meta ==
    {[kind |-> "absent", total |-> 0], [kind |-> "single", total |-> 1]}
        \cup {[kind |-> "playlist", total |-> t] : t \in 0 .. MaxTotal}

_fetch_meta_locked(j, meta) ==
    IF meta.kind = "playlist"
    THEN [j EXCEPT !.total_items = IF meta.total > 0 THEN meta.total ELSE @]
    ELSE IF meta.kind = "single"
    THEN [j EXCEPT !.total_items = 1, !.current_item = 1]
    ELSE j

\* _fetch_playlist_meta / _fetch_single_meta; write_job_meta creates the
\* directory it writes to
_fetch_meta ==
    /\ runner.pc = "meta" /\ LockFree
    /\ \E meta \in Meta :
        /\ IF registered
           THEN Put(_fetch_meta_locked(job, meta), hist)
           ELSE UNCHANGED <<job, hist>>
        /\ disk' = [disk EXCEPT !.job_dir = @ \/ meta.kind # "absent"]
    /\ runner' = [runner EXCEPT !.pc = IF runner.selected THEN "selected" ELSE "spawn"]
    /\ UNCHANGED <<registered, db, lock, procs, alive, signalled, exitCode, workers, q, ctl>>

\* ------------------------------------ _execute_download (whole collection)
_execute_download ==
    /\ runner.pc = "spawn"
    /\ alive' = alive \cup {Runner}
    /\ hist' = [hist EXCEPT !.spawned = TRUE]
    /\ runner' = [runner EXCEPT !.pc = "track"]
    /\ UNCHANGED <<job, registered, db, disk, lock, procs, signalled, exitCode,
                   workers, q, ctl>>

\* Popen raises
_execute_download_popen_failed ==
    /\ runner.pc = "spawn" /\ LockFree
    /\ IF registered
       THEN Put([job EXCEPT !.status = "error", !.message = "spawn_failed"], hist)
       ELSE UNCHANGED <<job, hist>>
    /\ runner' = [runner EXCEPT !.pc = "end"]
    /\ UNCHANGED <<registered, db, disk, lock, procs, alive, signalled, exitCode,
                   workers, q, ctl>>

_execute_download_track ==
    /\ runner.pc = "track" /\ LockFree
    /\ procs' = procs \cup {Runner}
    /\ runner' = [runner EXCEPT !.pc = "wait"]
    /\ UNCHANGED <<job, registered, db, disk, lock, alive, signalled, exitCode,
                   workers, q, ctl, hist>>

\* read_output of _execute_download on a "Downloading item idx of total" line
read_output_item(idx, total) ==
    /\ runner.pc \in {"track", "wait"} /\ LockFree /\ registered
    /\ Put([job EXCEPT !.current_item = idx, !.total_items = total], hist)
    /\ UNCHANGED <<registered, db, disk, lock, procs, alive, signalled, exitCode,
                   runner, workers, q, ctl>>

read_output_pct_locked(j, pct) ==
    _update_progress([j EXCEPT !.current_item_progress = pct,
                               !.total_items = IF @ = 0 THEN 1 ELSE @,
                               !.current_item = IF @ = 0 THEN 1 ELSE @])

\* read_output of _execute_download on a "[download] pct%" line
read_output_pct(pct) ==
    /\ runner.pc \in {"track", "wait"} /\ LockFree /\ registered
    /\ Put(read_output_pct_locked(job, pct), hist)
    /\ UNCHANGED <<registered, db, disk, lock, procs, alive, signalled, exitCode,
                   runner, workers, q, ctl>>

\* proc.wait() returns
\* proc.wait() has returned: the process is removed from the tracked set
_execute_download_untrack ==
    /\ runner.pc = "wait" /\ Runner \notin alive /\ LockFree
    /\ procs' = procs \ {Runner}
    /\ runner' = [runner EXCEPT !.pc = IF exitCode[Runner] = "ok" THEN "package" ELSE "failed"]
    /\ exitCode' = [exitCode EXCEPT ![Runner] = "none"]
    /\ UNCHANGED <<job, registered, db, disk, lock, alive, signalled,
                   workers, q, ctl, hist>>

\* rc != 0
_execute_download_failed ==
    /\ runner.pc = "failed" /\ LockFree
    /\ IF registered
       THEN Put(IF job.cancel_requested
                THEN [job EXCEPT !.status = "canceled", !.message = "canceled"]
                ELSE [job EXCEPT !.status = "error", !.message = "download_failed"],
                hist)
       ELSE UNCHANGED <<job, hist>>
    /\ runner' = [runner EXCEPT !.pc = "try_zip"]
    /\ UNCHANGED <<registered, db, disk, lock, procs, alive, signalled, exitCode,
                   workers, q, ctl>>

\* _package_zip writes JOBS_DIR/<id>/mp3.zip: it can succeed only if that
\* directory exists, and any exception makes it return None
_package_zip(d) == IF d.job_dir THEN {TRUE, FALSE} ELSE {FALSE}

\* _try_package_zip after a failed download (called without the lock held)
_try_package_zip ==
    /\ runner.pc = "try_zip" /\ LockFree
    /\ \E zip_path \in (IF disk.job_dir THEN _package_zip(disk) ELSE {FALSE}) :
           IF zip_path /\ registered
           THEN Put([job EXCEPT !.zip_path = TRUE], hist)
           ELSE UNCHANGED <<job, hist>>
    /\ runner' = [runner EXCEPT !.pc = "end"]
    /\ UNCHANGED <<registered, db, disk, lock, procs, alive, signalled, exitCode,
                   workers, q, ctl>>

\* rc == 0 and _package_zip returned a path
_execute_download_package ==
    /\ runner.pc = "package"
    /\ TRUE \in _package_zip(disk)
    /\ runner' = [runner EXCEPT !.pc = "mark_done"]
    /\ UNCHANGED <<job, registered, db, disk, lock, procs, alive, signalled, exitCode,
                   workers, q, ctl, hist>>

\* rc == 0 and _package_zip returned None
_execute_download_package_failed ==
    /\ runner.pc = "package" /\ LockFree
    /\ FALSE \in _package_zip(disk)
    /\ IF registered
       THEN Put([job EXCEPT !.status = "error", !.message = "zip_failed"], hist)
       ELSE UNCHANGED <<job, hist>>
    /\ runner' = [runner EXCEPT !.pc = "end"]
    /\ UNCHANGED <<registered, db, disk, lock, procs, alive, signalled, exitCode,
                   workers, q, ctl>>

\* mark_done without the assignment of 100.0 to job.progress
mark_done_KeepProgress(j) ==
    [j EXCEPT !.status = "done", !.message = "done", !.zip_path = TRUE]

mark_done(j) ==
    [j EXCEPT !.status = "done", !.progress = Full, !.message = "done",
              !.zip_path = TRUE]

_execute_download_done ==
    /\ runner.pc = "mark_done" /\ LockFree
    /\ IF registered
       THEN Put(mark_done(job), hist)
       ELSE UNCHANGED <<job, hist>>
    /\ runner' = [runner EXCEPT !.pc = "save", !.job = registered]
    /\ UNCHANGED <<registered, db, disk, lock, procs, alive, signalled, exitCode,
                   workers, q, ctl>>

\* `if job: self._save_job(job)` on the result of the last lookup
_execute_download_save ==
    /\ runner.pc = "save"
    /\ db' = IF runner.job THEN save_job(job, db) ELSE db
    /\ runner' = [runner EXCEPT !.pc =
                     IF runner.job /\ _save_job_raised(job, db) # "none"
                     THEN "crashed" ELSE "end"]
    /\ UNCHANGED <<job, registered, disk, lock, procs, alive, signalled, exitCode,
                   workers, q, ctl, hist>>

\* ------------------------------ _run_selected_downloads (selected items)
_run_selected_downloads ==
    /\ runner.pc = "selected" /\ LockFree
    /\ IF ~registered
       THEN /\ runner' = [runner EXCEPT !.pc = "end"]
            /\ UNCHANGED <<job, hist>>
       ELSE /\ Put([job EXCEPT !.total_items = runner.urls, !.current_item = 0], hist)
            /\ runner' = [runner EXCEPT !.pc = "archive"]
    /\ UNCHANGED <<registered, db, disk, lock, procs, alive, signalled, exitCode,
                   workers, q, ctl>>

\* what the download archive file can hold: none or one of the selected videos
Archived == {{}} \cup {{i} : i \in 1 .. runner.urls}

archive_locked(j, archived) ==
    _update_progress_from_items(
        [j EXCEPT !.download_items =
            [i \in DOMAIN @ |-> IF i \in archived
                                THEN [status |-> "done", progress |-> 100]
                                ELSE @[i]]])

\* the queue is filled with every index; the items whose video id is in the
\* download archive file are marked done
_run_selected_downloads_archive ==
    /\ runner.pc = "archive" /\ LockFree
    /\ q' = [i \in 1 .. runner.urls |-> i - 1]
    /\ \E archived \in Archived :
           IF registered
           THEN Put(archive_locked(job, archived), hist)
           ELSE UNCHANGED <<job, hist>>
    /\ runner' = [runner EXCEPT !.pc = "start_workers"]
    /\ UNCHANGED <<registered, db, disk, lock, procs, alive, signalled, exitCode,
                   workers, ctl>>

_run_selected_downloads_start ==
    /\ runner.pc = "start_workers"
    /\ workers' = [w \in Workers |-> [workers[w] EXCEPT !.pc = "check"]]
    /\ runner' = [runner EXCEPT !.pc = "join"]
    /\ UNCHANGED <<job, registered, db, disk, lock, procs, alive, signalled, exitCode,
                   q, ctl, hist>>

\* worker, top of the loop: leave on cancel, wait while the job is paused
worker_check(w) ==
    /\ workers[w].pc = "check" /\ LockFree
    /\ IF ~registered \/ job.cancel_requested
       THEN workers' = [workers EXCEPT ![w].pc = "exit"]
       ELSE /\ ~job.paused
            /\ workers' = [workers EXCEPT ![w].pc = "pop"]
    /\ UNCHANGED <<job, registered, db, disk, lock, procs, alive, signalled, exitCode,
                   runner, q, ctl, hist>>

\* worker_pop reading the head of the queue without removing it
worker_pop_Peek(w) ==
    /\ workers[w].pc = "pop"
    /\ IF q = <<>>
       THEN workers' = [workers EXCEPT ![w].pc = "exit"]
       ELSE workers' = [workers EXCEPT ![w].pc = "claim", ![w].idx = Head(q)]
    /\ UNCHANGED <<job, registered, db, disk, lock, procs, alive, signalled, exitCode,
                   runner, q, ctl, hist>>

\* worker, under q_lock: leave if the queue is empty, else take its head
worker_pop(w) ==
    /\ workers[w].pc = "pop"
    /\ IF q = <<>>
       THEN /\ workers' = [workers EXCEPT ![w].pc = "exit"]
            /\ UNCHANGED q
       ELSE /\ workers' = [workers EXCEPT ![w].pc = "claim", ![w].idx = Head(q)]
            /\ q' = Tail(q)
    /\ UNCHANGED <<job, registered, db, disk, lock, procs, alive, signalled, exitCode,
                   runner, ctl, hist>>

SetItem(j, idx, st, pr) ==
    [j EXCEPT !.download_items[idx + 1] = [status |-> st, progress |-> pr]]

\* worker, second critical section: cancel, item paused, item done, or start
worker_claim(w) ==
    LET idx == workers[w].idx
        it == job.download_items[idx + 1]
    IN  /\ workers[w].pc = "claim" /\ LockFree
        /\ IF ~registered \/ job.cancel_requested
           THEN /\ workers' = [workers EXCEPT ![w] = Worker("exit")]
                /\ UNCHANGED <<job, hist, q>>
           ELSE IF (idx + 1) \in job.paused_items
           THEN /\ Put(SetItem(job, idx, "paused", it.progress), hist)
                /\ q' = Append(q, idx)
                /\ workers' = [workers EXCEPT ![w] = Worker("check")]
           ELSE IF it.status = "done"
           THEN /\ workers' = [workers EXCEPT ![w] = Worker("check")]
                /\ UNCHANGED <<job, hist, q>>
           ELSE /\ Put(SetItem(job, idx, "downloading", 0),
                       [hist EXCEPT !.pause_killed = @ \ {idx + 1}])
                /\ workers' = [workers EXCEPT ![w].pc = "spawn"]
                /\ UNCHANGED q
        /\ UNCHANGED <<registered, db, disk, lock, procs, alive, signalled, exitCode,
                       runner, ctl>>

\* _execute_single_download: Popen succeeds, the output readers start
_execute_single_download(w) ==
    /\ workers[w].pc = "spawn"
    /\ alive' = alive \cup {w}
    /\ hist' = [hist EXCEPT !.spawned = TRUE]
    /\ workers' = [workers EXCEPT ![w].pc = "track"]
    /\ UNCHANGED <<job, registered, db, disk, lock, procs, signalled, exitCode,
                   runner, q, ctl>>

\* _execute_single_download: Popen raises, False is returned
_execute_single_download_popen_failed(w) ==
    /\ workers[w].pc = "spawn" /\ LockFree
    /\ workers' = [workers EXCEPT ![w].pc = "classify", ![w].success = FALSE]
    /\ UNCHANGED <<job, registered, db, disk, lock, procs, alive, signalled, exitCode,
                   runner, q, ctl, hist>>

_execute_single_download_track(w) ==
    /\ workers[w].pc = "track" /\ LockFree
    /\ procs' = procs \cup {w}
    /\ workers' = [workers EXCEPT ![w].pc = "wait"]
    /\ UNCHANGED <<job, registered, db, disk, lock, alive, signalled, exitCode,
                   runner, q, ctl, hist>>

read_output_single_locked(j, idx, pct) ==
    _update_progress_from_items(
        [j EXCEPT !.download_items[idx + 1].progress = pct])

\* read_output of _execute_single_download on a "[download] pct%" line
read_output_single(w, pct) ==
    /\ workers[w].pc \in {"track", "wait"} /\ LockFree /\ registered
    /\ Put(read_output_single_locked(job, workers[w].idx, pct), hist)
    /\ UNCHANGED <<registered, db, disk, lock, procs, alive, signalled, exitCode,
                   runner, workers, q, ctl>>

\* proc.wait() has returned: the process is removed from the tracked set
_execute_single_download_untrack(w) ==
    /\ workers[w].pc = "wait" /\ w \notin alive /\ LockFree
    /\ procs' = procs \ {w}
    /\ workers' = [workers EXCEPT ![w].pc = "classify",
                                  ![w].success = exitCode[w] = "ok"]
    /\ exitCode' = [exitCode EXCEPT ![w] = "none"]
    /\ UNCHANGED <<job, registered, db, disk, lock, alive, signalled,
                   runner, q, ctl, hist>>

\* the status the worker gives the item once _execute_single_download returned
\* classify without its last branch
classify_NoError(j, idx, success) ==
    IF success THEN "done"
    ELSE IF j.cancel_requested THEN "skipped"
    ELSE "paused"

\* classify with the test of cancel_requested ahead of the test of success
classify_CancelFirst(j, idx, success) ==
    IF j.cancel_requested THEN "skipped"
    ELSE IF success THEN "done"
    ELSE IF j.paused \/ (idx + 1) \in j.paused_items THEN "paused"
    ELSE "error"

classify(j, idx, success) ==
    IF success THEN "done"
    ELSE IF j.cancel_requested THEN "skipped"
    ELSE IF j.paused \/ (idx + 1) \in j.paused_items THEN "paused"
    ELSE "error"

worker_classify_locked(j, idx, success) ==
    _update_progress_from_items(
        SetItem(j, idx, classify(j, idx, success),
                IF success THEN 100 ELSE j.download_items[idx + 1].progress))

\* worker_classify without the q.append(idx) of the paused branch
worker_classify_NoRequeue(w) ==
    LET idx == workers[w].idx
    IN  /\ workers[w].pc = "classify" /\ LockFree
        /\ IF ~registered
           THEN /\ workers' = [workers EXCEPT ![w] = Worker("exit")]
                /\ UNCHANGED <<job, hist>>
           ELSE /\ Put(worker_classify_locked(job, idx, workers[w].success), hist)
                /\ workers' = [workers EXCEPT ![w].pc = "post"]
        /\ UNCHANGED <<registered, db, disk, lock, procs, alive, signalled, exitCode,
                       runner, q, ctl>>

\* worker, third critical section
worker_classify(w) ==
    LET idx == workers[w].idx
    IN  /\ workers[w].pc = "classify" /\ LockFree
        /\ IF ~registered
           THEN /\ workers' = [workers EXCEPT ![w] = Worker("exit")]
                /\ UNCHANGED <<job, hist, q>>
           ELSE /\ Put(worker_classify_locked(job, idx, workers[w].success), hist)
                /\ q' = IF classify(job, idx, workers[w].success) = "paused"
                        THEN Append(q, idx) ELSE q
                /\ workers' = [workers EXCEPT ![w].pc = "post"]
        /\ UNCHANGED <<registered, db, disk, lock, procs, alive, signalled, exitCode,
                       runner, ctl>>

\* worker, end of the loop body: leave after a failure of a canceled job
worker_post(w) ==
    /\ workers[w].pc = "post" /\ LockFree
    /\ workers' = [workers EXCEPT ![w] =
                      IF ~workers[w].success /\ registered /\ job.cancel_requested
                      THEN Worker("exit") ELSE Worker("check")]
    /\ UNCHANGED <<job, registered, db, disk, lock, procs, alive, signalled, exitCode,
                   runner, q, ctl, hist>>

\* _run_selected_downloads going on when the first worker thread has ended
_run_selected_downloads_join_First ==
    /\ runner.pc = "join" /\ LockFree
    /\ \E w \in Workers : workers[w].pc = "exit"
    /\ runner' = [runner EXCEPT !.pc = "finalize"]
    /\ UNCHANGED <<job, registered, db, disk, lock, procs, alive, signalled, exitCode,
                   workers, q, ctl, hist>>

\* every worker thread has been joined; _save_track_thumbnails reads the
\* items under the lock
_run_selected_downloads_join ==
    /\ runner.pc = "join" /\ LockFree
    /\ \A w \in Workers : workers[w].pc = "exit"
    /\ runner' = [runner EXCEPT !.pc = "finalize"]
    /\ UNCHANGED <<job, registered, db, disk, lock, procs, alive, signalled, exitCode,
                   workers, q, ctl, hist>>

\* ------------------------------------------------------------ _finalize_job
\* first critical section, job not canceled (or gone)
_finalize_job ==
    /\ runner.pc = "finalize" /\ LockFree
    /\ ~registered \/ ~job.cancel_requested
    /\ runner' = [runner EXCEPT !.pc = IF registered THEN "move" ELSE "end"]
    /\ UNCHANGED <<job, registered, db, disk, lock, procs, alive, signalled, exitCode,
                   workers, q, ctl, hist>>

\* first critical section, cancel requested: _try_package_zip is called with
\* the lock held and returns without taking it when no archive was written
_finalize_job_canceled ==
    /\ runner.pc = "finalize" /\ LockFree
    /\ registered /\ job.cancel_requested
    /\ ~disk.job_dir \/ FALSE \in _package_zip(disk)
    /\ Put([job EXCEPT !.status = "canceled", !.message = "canceled"], hist)
    /\ runner' = [runner EXCEPT !.pc = "end"]
    /\ UNCHANGED <<registered, db, disk, lock, procs, alive, signalled, exitCode,
                   workers, q, ctl>>

\* first critical section, cancel requested, the archive was written:
\* _try_package_zip enters `with self._lock` while _finalize_job holds that
\* lock (threading.Lock is not reentrant), so the thread waits for itself
_finalize_job_canceled_relock ==
    /\ runner.pc = "finalize" /\ LockFree
    /\ registered /\ job.cancel_requested
    /\ disk.job_dir /\ TRUE \in _package_zip(disk)
    /\ Put([job EXCEPT !.status = "canceled", !.message = "canceled"], hist)
    /\ lock' = "dead"
    /\ runner' = [runner EXCEPT !.pc = "deadlocked"]
    /\ UNCHANGED <<registered, db, disk, procs, alive, signalled, exitCode,
                   workers, q, ctl>>

\* _move_to_download_dir: temp_dir.iterdir() raises if the job directory is
\* gone (the thread dies); else the final directory is created
_move_to_download_dir ==
    /\ runner.pc = "move"
    /\ IF disk.job_dir
       THEN /\ disk' = [disk EXCEPT !.final_dir = TRUE]
            /\ runner' = [runner EXCEPT !.pc = "zip"]
       ELSE /\ runner' = [runner EXCEPT !.pc = "crashed"]
            /\ UNCHANGED disk
    /\ UNCHANGED <<job, registered, db, lock, procs, alive, signalled, exitCode,
                   workers, q, ctl, hist>>

_finalize_job_package ==
    /\ runner.pc = "zip"
    /\ TRUE \in _package_zip(disk)
    /\ runner' = [runner EXCEPT !.pc = "set_final"]
    /\ UNCHANGED <<job, registered, db, disk, lock, procs, alive, signalled, exitCode,
                   workers, q, ctl, hist>>

_finalize_job_package_failed ==
    /\ runner.pc = "zip" /\ LockFree
    /\ FALSE \in _package_zip(disk)
    /\ IF registered
       THEN Put([job EXCEPT !.status = "error", !.message = "zip_failed"], hist)
       ELSE UNCHANGED <<job, hist>>
    /\ runner' = [runner EXCEPT !.pc = "end"]
    /\ UNCHANGED <<registered, db, disk, lock, procs, alive, signalled, exitCode,
                   workers, q, ctl>>

_finalize_job_output_dir ==
    /\ runner.pc = "set_final" /\ LockFree
    /\ IF registered
       THEN Put([job EXCEPT !.output_dir = "final_dir"], hist)
       ELSE UNCHANGED <<job, hist>>
    /\ runner' = [runner EXCEPT !.pc = "fin_done"]
    /\ UNCHANGED <<registered, db, disk, lock, procs, alive, signalled, exitCode,
                   workers, q, ctl>>

_finalize_job_done ==
    /\ runner.pc = "fin_done" /\ LockFree
    /\ IF registered
       THEN Put(mark_done(job), hist)
       ELSE UNCHANGED <<job, hist>>
    /\ runner' = [runner EXCEPT !.pc = "fin_save", !.job = registered]
    /\ UNCHANGED <<registered, db, disk, lock, procs, alive, signalled, exitCode,
                   workers, q, ctl>>

_finalize_job_save ==
    /\ runner.pc = "fin_save"
    /\ db' = IF runner.job THEN save_job(job, db) ELSE db
    /\ runner' = [runner EXCEPT !.pc =
                     IF runner.job /\ _save_job_raised(job, db) # "none"
                     THEN "crashed" ELSE "end"]
    /\ UNCHANGED <<job, registered, disk, lock, procs, alive, signalled, exitCode,
                   workers, q, ctl, hist>>

\* -------------------------------------------------------- specification
\* the public operations on an existing job
Control ==
    \/ cancel_job
    \/ pause_job
    \/ resume_job
    \/ \E i \in DOMAIN job.download_items : pause_item(i)
    \/ \E i \in DOMAIN job.download_items : resume_item(i)
    \/ _terminate_process
    \/ _terminate_process_pop
    \/ delete_job
    \/ delete_job_check
    \/ delete_job_cancel
    \/ delete_job_pop
    \/ delete_job_purge

\* _run_selected_downloads as _run_job line 635 calls it for the job that
\* create_job_with_urls registered: status running, output_dir the job
\* directory.  (That call is reached only if line 623 does not raise.)
InitSelected ==
    /\ job = [JobState(NumItems, "unset") EXCEPT !.status = "running",
                                                  !.output_dir = "job_dir"]
    /\ registered = TRUE
    /\ db = NoRow
    /\ disk = [job_dir |-> TRUE, final_dir |-> FALSE]
    /\ lock = "free"
    /\ procs = {}
    /\ alive = {}
    /\ signalled = {}
    /\ exitCode = [o \in Owners |-> "none"]
    /\ runner = [pc |-> "selected", job |-> TRUE, selected |-> TRUE,
                 urls |-> NumItems]
    /\ workers = [w \in Workers |-> Worker("unborn")]
    /\ q = <<>>
    /\ ctl = [Idle EXCEPT !.ret = "id"]
    /\ hist = NoHistory

\* the steps of _run_selected_downloads, its workers and _finalize_job that
\* a job can take whose cancel was never requested
UnattendedSteps ==
    \/ _run_selected_downloads
    \/ _run_selected_downloads_archive
    \/ _run_selected_downloads_start
    \/ \E w \in Workers : worker_check(w)
    \/ \E w \in Workers : worker_pop(w)
    \/ \E w \in Workers : worker_claim(w)
    \/ \E w \in Workers : _execute_single_download(w)
    \/ \E w \in Workers : _execute_single_download_popen_failed(w)
    \/ \E w \in Workers : _execute_single_download_track(w)
    \/ \E w \in Workers : \E pct \in Pcts : read_output_single(w, pct)
    \/ \E w \in Workers : proc_exit(w)
    \/ \E w \in Workers : _execute_single_download_untrack(w)
    \/ \E w \in Workers : worker_classify(w)
    \/ \E w \in Workers : worker_post(w)
    \/ _run_selected_downloads_join
    \/ _finalize_job
    \/ _move_to_download_dir
    \/ _finalize_job_package
    \/ _finalize_job_package_failed
    \/ _finalize_job_output_dir
    \/ _finalize_job_done
    \/ _finalize_job_save

\* the steps of _run_selected_downloads, its workers and _finalize_job
SelectedSteps ==
    \/ UnattendedSteps
    \/ _finalize_job_canceled
    \/ _finalize_job_canceled_relock

NextSelected == Control \/ SelectedSteps

SpecSelected == InitSelected /\ [][NextSelected]_vars

\* The worker's critical sections that call time.sleep(0.5) inside the
\* `with self._lock:` block, followed up to the call: the thread sleeps with
\* the lock held ("asleep"), and the block is left when the sleep returns.
\* second critical section, the index is in paused_items
worker_claim_sleep(w) ==
    LET idx == workers[w].idx
        it == job.download_items[idx + 1]
    IN  /\ workers[w].pc = "claim" /\ LockFree
        /\ registered /\ ~job.cancel_requested
        /\ (idx + 1) \in job.paused_items
        /\ Put(SetItem(job, idx, "paused", it.progress), hist)
        /\ q' = Append(q, idx)
        /\ lock' = "asleep"
        /\ workers' = [workers EXCEPT ![w].pc = "claim_sleep"]
        /\ UNCHANGED <<registered, db, disk, procs, alive, signalled, exitCode,
                       runner, ctl>>

\* last critical section of the loop body, the job is paused and not canceled
worker_post_sleep(w) ==
    /\ workers[w].pc = "post" /\ LockFree
    /\ registered /\ job.paused /\ ~job.cancel_requested
    /\ lock' = "asleep"
    /\ workers' = [workers EXCEPT ![w].pc = "post_sleep"]
    /\ UNCHANGED <<job, registered, db, disk, procs, alive, signalled, exitCode,
                   runner, q, ctl, hist>>

\* time.sleep returns, the `with` block ends, the loop starts over
worker_wake(w) ==
    /\ workers[w].pc \in {"claim_sleep", "post_sleep"} /\ lock = "asleep"
    /\ lock' = "free"
    /\ workers' = [workers EXCEPT ![w] = Worker("check")]
    /\ UNCHANGED <<job, registered, db, disk, procs, alive, signalled, exitCode,
                   runner, q, ctl, hist>>

NextLock ==
    \/ NextSelected
    \/ \E w \in Workers : worker_claim_sleep(w)
    \/ \E w \in Workers : worker_post_sleep(w)
    \/ \E w \in Workers : worker_wake(w)

SpecLock == InitSelected /\ [][NextLock]_vars

\* creation, and the steps of _run_job up to the end of _execute_download
WholeSteps ==
    \/ create_job
    \/ create_job_with_urls
    \/ proc_exit(Runner)
    \/ _run_job
    \/ _run_job_check_bin
    \/ _run_job_no_bin
    \/ _run_job_mkdir
    \/ _run_job_set_output_dir
    \/ _run_job_force_single
    \/ _fetch_meta
    \/ _execute_download
    \/ _execute_download_popen_failed
    \/ _execute_download_track
    \/ \E total \in 1 .. MaxTotal : \E idx \in 1 .. total : read_output_item(idx, total)
    \/ \E pct \in Pcts : read_output_pct(pct)
    \/ _execute_download_untrack
    \/ _execute_download_failed
    \/ _try_package_zip
    \/ _execute_download_package
    \/ _execute_download_package_failed
    \/ _execute_download_done
    \/ _execute_download_save

Next == Control \/ WholeSteps

Spec == Init /\ [][Next]_vars

\* the program from its construction, with the deletion of tracks
NextTracks == Next \/ delete_job_track

SpecTracks == Init /\ [][NextTracks]_vars

\* the program from its construction, with cleanup_old_jobs
\* the database stops being usable; from then on every db call raises
db_breaks ==
    /\ db # Unusable
    /\ db' = Unusable
    /\ UNCHANGED <<job, registered, disk, lock, procs, alive, signalled, exitCode,
                   runner, workers, q, ctl, hist>>

\* the whole-url job on a database that can fail at any moment
NextFaulty == Next \/ db_breaks
SpecFaulty == Init /\ [][NextFaulty]_vars

NextCleanup == Next \/ cleanup_old_jobs \/ cleanup_old_jobs_delete

SpecCleanup == Init /\ [][NextCleanup]_vars

\* both of the above: the program from its construction, and
\* _run_selected_downloads from its entry
InitBoth == Init \/ InitSelected

NextBoth == Control \/ WholeSteps \/ SelectedSteps

SpecBoth == InitBoth /\ [][NextBoth]_vars

\* _run_selected_downloads from its entry, for a job on which no operation
\* of the public API is called any more
InitUnattended ==
    /\ job = [JobState(NumUnattended, "unset") EXCEPT !.status = "running",
                                                       !.output_dir = "job_dir"]
    /\ registered = TRUE
    /\ db = NoRow
    /\ disk = [job_dir |-> TRUE, final_dir |-> FALSE]
    /\ lock = "free"
    /\ procs = {}
    /\ alive = {}
    /\ signalled = {}
    /\ exitCode = [o \in Owners |-> "none"]
    /\ runner = [pc |-> "selected", job |-> TRUE, selected |-> TRUE,
                 urls |-> NumUnattended]
    /\ workers = [w \in Workers |-> Worker("unborn")]
    /\ q = <<>>
    /\ ctl = [Idle EXCEPT !.ret = "id"]
    /\ hist = NoHistory

SpecUnattended == InitUnattended /\ [][UnattendedSteps]_vars

\* Output lines that the patterns of the readers accept although yt-dlp is
\* not expected to print them: a percent above 100, item 0 of 0, an item
\* number above the total.
OddPcts == {150}
OddItems == {<<0, 0>>, <<MaxTotal + 1, 1>>}

InitPercent == Init \/ InitUnattended

\* the whole-url job with the calls of the public API, the selected items
\* job without them
NextPercent ==
    \/ WholeSteps
    \/ (~runner.selected /\ Control)
    \/ UnattendedSteps
    \/ \E pct \in OddPcts : read_output_pct(pct)
    \/ \E it \in OddItems : read_output_item(it[1], it[2])
    \/ \E w \in Workers : \E pct \in OddPcts : read_output_single(w, pct)

SpecPercent == InitPercent /\ [][NextPercent]_vars

\* ------------------------------------------------ persistence and restart
\* The jobs of a process that is about to save them and to be started again:
\* a job of create_job (no items, force_single set) or of
\* create_job_with_urls, in any status, with any flags and item states.
Statuses == {"queued", "running", "canceling", "done", "error", "canceled"}

ItemStates ==
    [status : {"pending", "downloading", "done", "error", "paused"},
     progress : {0, 50, 100}]

StoredJobs(n, fs) ==
    {[JobState(n, fs) EXCEPT !.status = st,
                             !.progress = IF st = "done" THEN Full ELSE p,
                             !.cancel_requested = c, !.paused = pa,
                             !.paused_items = pi, !.download_items = its] :
        st \in Statuses, p \in {0, 50 * PctUnit}, c \in BOOLEAN, pa \in BOOLEAN,
        pi \in SUBSET (1 .. n), its \in [1 .. n -> ItemStates]}

InitRestart ==
    /\ job \in StoredJobs(0, "set") \cup StoredJobs(NumItems, "unset")
    /\ registered = TRUE
    /\ db = NoRow
    /\ disk = [job_dir |-> FALSE, final_dir |-> FALSE]
    /\ lock = "free"
    /\ procs = {}
    /\ alive = {}
    /\ signalled = {}
    /\ exitCode = [o \in Owners |-> "none"]
    /\ runner = [pc |-> "unborn", job |-> FALSE, selected |-> FALSE, urls |-> 0]
    /\ workers = [w \in Workers |-> Worker("unborn")]
    /\ q = <<>>
    /\ ctl = Idle
    /\ hist = NoHistory

\* _save_job: db.save_job(job), any exception printed and dropped
_save_job ==
    /\ ctl.ret = "none" /\ registered
    /\ db' = save_job(job, db)
    /\ ctl' = [Idle EXCEPT !.ret = "saved"]
    /\ UNCHANGED <<job, registered, disk, lock, procs, alive, signalled, exitCode,
                   runner, workers, q, hist>>

\* db.load_job(job_id) on the table as it is: ctl.out is what the call gave
db_load_job ==
    /\ ctl.ret = "saved"
    /\ ctl' = [Idle EXCEPT !.ret = "load_job", !.out = load_job(db)]
    /\ UNCHANGED <<job, registered, db, disk, lock, procs, alive, signalled,
                   exitCode, runner, workers, q, hist>>

\* JobManager.__init__ of the next process: the registry starts empty and
\* _load_jobs_from_db fills it from the table.  An exception anywhere in the
\* loading is printed and dropped, the registry is left as it is by then.
\* (_auto_cleanup_on_start then deletes the jobs not updated for a week: the
\* job followed here is younger.)
_load_jobs_from_db ==
    /\ ctl.ret \in {"none", "saved"} /\ registered
    /\ hist' = [hist EXCEPT !.found = db.status]
    /\ LET r == load_all_jobs(db)
           j == r.value[1]
           c == [j EXCEPT !.status = "canceled", !.message = "restart_canceled"]
       IN  IF r.raised # "none" \/ r.value = <<>>
           THEN /\ job' = NoJob /\ registered' = FALSE /\ db' = db
           ELSE IF j.status \in Terminal
           THEN /\ job' = j /\ registered' = TRUE /\ db' = db
           ELSE IF j.status \in {"running", "queued"}
           THEN /\ job' = c /\ registered' = TRUE /\ db' = save_job(c, db)
           ELSE /\ job' = NoJob /\ registered' = FALSE /\ db' = db
    /\ ctl' = [Idle EXCEPT !.ret = "loaded"]
    /\ UNCHANGED <<disk, lock, procs, alive, signalled, exitCode, runner,
                   workers, q>>

NextRestart == _save_job \/ db_load_job \/ _load_jobs_from_db

SpecRestart == InitRestart /\ [][NextRestart]_vars

\* ----------------------------------------------- recomputing the progress
\* The running jobs that _update_progress_from_items can be handed: any item
\* states, any pausing, a progress below or above what the items give.
ItemJobs(n) ==
    {[JobState(n, "unset") EXCEPT !.status = "running", !.output_dir = "job_dir",
                                  !.progress = p, !.paused_items = pi,
                                  !.download_items = its] :
        p \in {0, 50 * PctUnit}, pi \in SUBSET (1 .. n),
        its \in [1 .. n -> ItemStates]}

InitItems ==
    /\ job \in ItemJobs(NumUnattended)
    /\ registered = TRUE
    /\ db = NoRow
    /\ disk = [job_dir |-> TRUE, final_dir |-> FALSE]
    /\ lock = "free"
    /\ procs = {}
    /\ alive = {}
    /\ signalled = {}
    /\ exitCode = [o \in Owners |-> "none"]
    /\ runner = [pc |-> "join", job |-> TRUE, selected |-> TRUE,
                 urls |-> NumUnattended]
    /\ workers = [w \in Workers |-> Worker("check")]
    /\ q = <<>>
    /\ ctl = [Idle EXCEPT !.ret = "id"]
    /\ hist = NoHistory

\* a call of _update_progress_from_items(job) with the lock held, as a reader
\* makes for every progress line
_update_progress_from_items_call ==
    /\ LockFree /\ registered /\ hist.ops < MaxOps
    /\ job' = _update_progress_from_items(job)
    /\ hist' = Called
    /\ ctl' = [Idle EXCEPT !.ret = "recomputed"]
    /\ UNCHANGED <<registered, db, disk, lock, procs, alive, signalled, exitCode,
                   runner, workers, q>>

SpecItems == InitItems /\ [][_update_progress_from_items_call]_vars

\* ---------------------------------------------------------------- the log
\* A line of text is followed by its serial number, the number of its
\* characters before the trailing newlines, and the number of those newlines.
LogLines == 400
LineChars == 2000

\* line[:LineChars] + one character, for a line longer than LineChars
Truncate(line) ==
    IF line.chars > LineChars THEN [line EXCEPT !.chars = LineChars + 1] ELSE line

\* job.logs[-LogLines:]
LastLines(logs) ==
    IF Len(logs) > LogLines
    THEN SubSeq(logs, Len(logs) - LogLines + 1, Len(logs)) ELSE logs

_append_log(j, line) ==
    LET stripped == [line EXCEPT !.newlines = 0]
    IN  IF stripped.chars = 0 THEN j
        ELSE [j EXCEPT !.logs = LastLines(Append(@, Truncate(stripped)))]

\* the lines a subprocess can write: empty, short, of LineChars characters
\* and longer, with or without a newline at the end
LineShapes ==
    [chars : {0, 1, LineChars - 1, LineChars, LineChars + 1, LineChars + 500},
     newlines : {0, 1}]

\* a log of n short lines, numbered from 1
Logged(n) == [i \in 1 .. n |-> [id |-> i, chars |-> 1, newlines |-> 0]]

\* a running job whose log is empty, has one line, or is one line below or
\* at its capacity
InitLog ==
    /\ \E n \in {0, 1, LogLines - 1, LogLines} :
           job = [JobState(0, "set") EXCEPT !.status = "running",
                                           !.output_dir = "job_dir",
                                           !.logs = Logged(n)]
    /\ registered = TRUE
    /\ db = Row(JobState(0, "set"))
    /\ disk = [job_dir |-> TRUE, final_dir |-> FALSE]
    /\ lock = "free"
    /\ procs = {Runner}
    /\ alive = {Runner}
    /\ signalled = {}
    /\ exitCode = [o \in Owners |-> "none"]
    /\ runner = [pc |-> "wait", job |-> TRUE, selected |-> FALSE, urls |-> 0]
    /\ workers = [w \in Workers |-> Worker("unborn")]
    /\ q = <<>>
    /\ ctl = [Idle EXCEPT !.ret = "id"]
    /\ hist = [NoHistory EXCEPT !.spawned = TRUE]

\* read_output: one more line of the subprocess is appended to the log; the
\* line gets the next serial number (hist.ops counts the lines read)
_append_log_call ==
    /\ LockFree /\ registered /\ hist.ops < MaxOps
    /\ \E shape \in LineShapes :
           job' = _append_log(job, [id |-> LogLines + hist.ops + 1,
                                    chars |-> shape.chars,
                                    newlines |-> shape.newlines])
    /\ hist' = Called
    /\ ctl' = [Idle EXCEPT !.ret = "logged"]
    /\ UNCHANGED <<registered, db, disk, lock, procs, alive, signalled, exitCode,
                   runner, workers, q>>

SpecLog == InitLog /\ [][_append_log_call]_vars

\* ------------------------------------------------------------- properties
\* the value _update_progress_from_items computes before it takes the max
ItemsProgress(j) ==
    Min(Full, (SumPct(j.download_items, Len(j.download_items)) * PctUnit)
                  \div Max(1, j.total_items))

\* C1: from one state of a registered job to the next, whatever step is
\* taken (reader, worker, pause, resume, cancel, archive, finalize),
\* job.progress does not decrease.
C1_ProgressNeverDecreases ==
    [][registered /\ registered' => job'.progress >= job.progress]_vars

\* C1 happens: the items of a job add up to less than the progress the job
\* has already shown (an item that had reported 50% is paused and counts 0)
C1_ProgressAboveItems ==
    /\ registered /\ job.total_items > 0 /\ Len(job.download_items) > 0
    /\ job.paused
    /\ job.progress > ItemsProgress(job)

\* C2: once cancel_job has found the job queued, the status of the job is
\* canceled in every later state and no subprocess is ever started for it.
C2_QueuedCancelIsFinal ==
    (registered /\ hist.queued_cancel) => (job.status = "canceled" /\ ~hist.spawned)

\* C3: a step that is not a call of the API (the caller's record is left
\* alone) never changes the status of a registered job that is done, error
\* or canceled.
C3_TerminalStatusIsKept ==
    [][(registered /\ registered' /\ job.status \in Terminal /\ ctl' = ctl)
          => job'.status = job.status]_vars

\* C4: the only status that follows canceling is canceled.
C4_CancelingLeadsToCanceled ==
    [][(registered /\ registered' /\ job.status = "canceling")
          => job'.status \in {"canceling", "canceled"}]_vars

\* C5: cancel_requested is sticky: once true it is true in the next state,
\* whatever the step.
C5_CancelRequestedSticky ==
    [][job.cancel_requested => job'.cancel_requested]_vars

\* C5 happens: resume_job has acted on a job whose cancel was requested
C5_ResumedAfterCancel ==
    /\ registered /\ job.cancel_requested
    /\ job.message = "resumed" /\ ~job.paused

\* C6: cancel_job is idempotent.  Its critical section, applied to a job that
\* is canceling, canceled, done or error, leaves status, message, items and
\* progress as they are; applied a second time to its own result it changes
\* nothing; and every cancel_job call on a registered job returns true, with
\* or without a live subprocess.
C6_CancelIdempotent ==
    [][/\ (registered /\ ctl.pc = "idle" /\ ctl'.op = "cancel")
          => /\ job' = cancel_job_locked(job)
             /\ cancel_job_locked(job') = job'
             /\ job.status \in {"canceling", "canceled", "done", "error"}
                   => /\ job'.status = job.status
                      /\ job'.message = job.message
                      /\ job'.download_items = job.download_items
                      /\ job'.progress = job.progress
       /\ (ctl.op = "cancel" /\ ctl'.pc = "idle") => ctl'.ret = "true"]_vars

\* C6 happens: cancel_job found the job already canceling or terminal, there
\* was no tracked subprocess, and the call has returned true
C6_CanceledAgain ==
    /\ hist.cancel_saw \in {"canceling", "canceled", "done", "error"}
    /\ job.cancel_requested
    /\ procs = {} /\ alive = {}
    /\ ctl.pc = "idle" /\ ctl.ret = "true" /\ hist.ops = MaxOps

C9_TerminalJobIsIdle ==
    [][/\ (registered /\ job.status \in Terminal)
          => /\ alive = {}
             /\ \A w \in Workers : workers[w].pc \in {"unborn", "exit"}
       /\ hist.was_terminal => alive' \subseteq alive]_vars

\* C10: once delete_job has returned, the job is not registered, its row is
\* absent, and neither its job directory nor its output directory exists.
C10_DeletedJobIsGone ==
    hist.deleted
        => /\ ~registered
           /\ db = NoRow
           /\ ~disk.job_dir
           /\ ~disk.final_dir

\* C11: after the registry has been initialized from a table that held the
\* job with status running or queued, the job is registered with status
\* canceled; a job found done, error or canceled is registered with the
\* status found.
C11_ReloadReclassifies ==
    ctl.ret = "loaded"
        => /\ hist.found \in {"running", "queued"}
                => registered /\ job.status = "canceled"
           /\ hist.found \in Terminal
                => registered /\ job.status = hist.found

\* C12: db.load_job after db.save_job(job) returns a job whose status,
\* progress, cancel_requested, paused, paused_items and items are those of
\* the job that was saved.
C12_SaveLoadRoundTrip ==
    ctl.ret = "load_job"
        => /\ ctl.out.raised = "none"
           /\ \A f \in {"status", "progress", "cancel_requested", "paused",
                         "paused_items", "download_items"} :
                ctl.out.value[f] = job[f]

\* C13: a job of create_job_with_urls on which no operation has been called
\* and for which yt-dlp was found is done with progress 100, or a step of its
\* background routine is still possible: the routine does not stop before
\* the job is done.
C13_SelectiveJobCompletes ==
    (registered /\ runner.selected /\ hist.ops = 0 /\ job.status # "error")
        => \/ job.status = "done" /\ job.progress = Full
           \/ ENABLED (WholeSteps \/ SelectedSteps)

\* C14: in a selective job that is neither canceled nor paused, the worker
\* whose subprocess failed sets its item to error and leaves the other items
\* and all subprocesses as they are; and when the background routine ends
\* and the archive was written, the job is done.
C14_ItemErrorIsLocal ==
    [][/\ \A w \in Workers :
            (/\ workers[w].pc = "classify" /\ workers'[w].pc = "post"
             /\ ~workers[w].success
             /\ ~job.cancel_requested /\ ~job.paused
             /\ (workers[w].idx + 1) \notin job.paused_items)
                => /\ job'.download_items[workers[w].idx + 1].status = "error"
                   /\ \A i \in DOMAIN job.download_items \ {workers[w].idx + 1} :
                        job'.download_items[i] = job.download_items[i]
                   /\ procs' = procs /\ alive' = alive /\ signalled' = signalled
       /\ (/\ runner.pc # "end" /\ runner'.pc = "end"
           /\ ~job'.cancel_requested /\ ~job'.paused
           /\ job'.message # "zip_failed")
              => job'.status = "done"]_vars

C14_DoneWithFailedItem ==
    /\ runner.pc = "end" /\ job.status = "done" /\ hist.spawned
    /\ \E i, k \in DOMAIN job.download_items :
        /\ job.download_items[i].status = "error"
        /\ job.download_items[k].status = "done"

\* C15: when the background routine of a job gives it its final status
\* after the download has run (whole collection or selected items, any exit
\* code): the status is canceled if cancel was requested; otherwise it is done
\* with progress 100 if the archive was written, and error only because the
\* packaging failed.
C15_FinalizeOutcome ==
    [][(/\ registered /\ runner' # runner
        /\ job.status \notin Terminal /\ job'.status \in Terminal
        /\ job'.message \in {"canceled", "done", "zip_failed", "download_failed"})
          => IF job.cancel_requested
             THEN job'.status = "canceled"
             ELSE \/ job'.status = "done" /\ job'.progress = Full
                  \/ job'.status = "error" /\ job'.message = "zip_failed"]_vars

\* C16: when create, cancel, pause, resume, pause-item or resume-item returns
\* for a registered job, and when the background routine of a registered job
\* ends, the status column of the job's row equals the status of the job.
C16_SnapshotFollowsStatus ==
    [][(/\ registered'
        /\ \/ /\ ctl'.pc = "idle" /\ ctl'.ret # "none"
              /\ ctl.pc # "idle" \/ hist'.ops # hist.ops \/ ~registered
           \/ runner.pc # "end" /\ runner'.pc = "end")
          => db'.status = job'.status]_vars

\* C17: a call of _update_progress_from_items that follows another call
\* with no change of an item in between leaves progress, current_item and
\* current_item_progress as the first call left them.
C17_RecomputeIdempotent ==
    [][(ctl.ret = "recomputed" /\ ctl'.ret = "recomputed")
          => /\ job'.progress = job.progress
             /\ job'.current_item = job.current_item
             /\ job'.current_item_progress = job.current_item_progress]_vars

C17_RecomputedTwice ==
    /\ ctl.ret = "recomputed" /\ hist.ops = 2
    /\ job.progress > 50 * PctUnit /\ job.progress < Full
    /\ job.current_item = 2 /\ job.current_item_progress = 50

\* C18: resume_item on a paused item sets the item to pending, takes its
\* index out of paused_items and leaves its progress no higher than it was.
C18_ResumeItemKeepsProgress ==
    [][\A i \in DOMAIN job.download_items :
          (resume_item(i) /\ registered /\ job.download_items[i].status = "paused")
             => /\ job'.download_items[i].status = "pending"
                /\ i \notin job'.paused_items
                /\ job'.download_items[i].progress <= job.download_items[i].progress]_vars

C18_ResumedWithProgress ==
    /\ ctl.pc = "idle" /\ ctl.ret = "true" /\ registered
    /\ \E i \in DOMAIN job.download_items :
        /\ job.download_items[i].status = "pending"
        /\ job.download_items[i].progress > 0
        /\ i \notin job.paused_items

\* C20: pause_item(i) puts i into paused_items and resume_item(i) takes it
\* out; neither changes another item, the job's status, paused or
\* cancel_requested, or stops a subprocess; and pause_item(i) on a pending
\* item followed at once by resume_item(i) gives back the status of the item
\* and the paused_items that were there before.
C20_ItemPauseFrame ==
    [][\A i \in DOMAIN job.download_items :
          ((pause_item(i) \/ resume_item(i)) /\ registered)
             => /\ pause_item(i) => i \in job'.paused_items
                /\ resume_item(i) => i \notin job'.paused_items
                /\ \A k \in DOMAIN job.download_items \ {i} :
                     job'.download_items[k] = job.download_items[k]
                /\ job'.download_items[i].progress = job.download_items[i].progress
                /\ job'.status = job.status
                /\ job'.paused = job.paused
                /\ job'.cancel_requested = job.cancel_requested
                /\ alive' = alive /\ signalled' = signalled /\ procs' = procs
                /\ (pause_item(i) /\ job.download_items[i].status = "pending")
                     => LET back == resume_item_locked(job', i)
                        IN  /\ job'.download_items[i].status = "paused"
                            /\ back.download_items[i].status = "pending"
                            /\ back.paused_items = job.paused_items]_vars

C20_PausedWhileDownloading ==
    /\ ctl.pc = "idle" /\ ctl.ret = "true" /\ registered /\ ~job.paused
    /\ alive # {}
    /\ \E i \in DOMAIN job.download_items :
        /\ i \in job.paused_items
        /\ job.download_items[i].status = "downloading"

\* C19: the log of the job never holds more than 400 entries nor an entry of
\* more than 2000 characters; and an append of a non-empty line leaves the
\* line last, preceded by the most recent of the former entries in their
\* former order.
C19_LogBufferBounded ==
    [][/\ Len(job'.logs) <= LogLines
       /\ \A i \in DOMAIN job'.logs : job'.logs[i].chars <= LineChars
       /\ job'.logs # job.logs
            => LET n == Len(job'.logs)
               IN  /\ n > 0
                   /\ job'.logs[n].id = LogLines + hist'.ops
                   /\ SubSeq(job'.logs, 1, n - 1)
                        = SubSeq(job.logs, Len(job.logs) - n + 2, Len(job.logs))]_vars

\* C21: the deletion of a track leaves the status and the progress of the
\* job as they are; and once invalidate_zip has cleared the zip_path of a done
\* job, the zip_path is set again or a step of the background routine, which
\* alone packages, is still possible.
C21_ArchiveRebuilt ==
    [][/\ delete_job_track
            => job'.status = job.status /\ job'.progress = job.progress
       /\ (registered /\ hist.invalidated)
            => job.zip_path \/ ENABLED (WholeSteps \/ SelectedSteps)]_vars

\* C22: the job that the delete_job called by cleanup_old_jobs takes out of
\* the registry is in a terminal status at that moment: cleanup never deletes
\* a job that is queued, running or canceling.
C22_CleanupDeletesTerminalOnly ==
    [][(delete_job_pop /\ registered /\ hist.swept # "none")
          => job.status \in Terminal]_vars


\* C23: a failure of the persistence layer never leaves the registry operation
\* and never changes the job in memory: create_job registers the job, starts
\* its thread and returns the id; the save at the end of the job leaves the job
\* and its final status as they are and the thread ends normally; delete_job
\* still ends with the job out of the registry.
C23_PersistenceFailureContained ==
    [][/\ (job.status = "none" /\ job'.status # "none")
            => registered' /\ ctl'.ret = "id" /\ runner'.pc = "start"
       /\ (runner.pc = "save" /\ runner'.pc # "save")
            => runner'.pc = "end" /\ job' = job /\ registered' = registered
       /\ (ctl.pc = "del_purge" /\ ctl'.pc # "del_purge")
            => ~registered' /\ ctl'.pc = "idle" /\ job' = job]_vars

\* the job ended done and registered though the database could not be written
C23_DoneOnUnusableDatabase ==
    /\ db = Unusable /\ registered /\ job.status = "done"
    /\ runner.pc = "end" /\ ctl.ret = "id"

C26_ClassificationPrecedence ==
    [][\A w \in Workers :
          (workers[w].pc = "classify" /\ workers'[w].pc = "post" /\ registered)
            => LET idx == workers[w].idx
                   new == job'.download_items[idx + 1]
                   InQueue == {k \in 1 .. Len(q) : q[k] = idx}
               IN  IF workers[w].success
                   THEN new = [status |-> "done", progress |-> 100] /\ q' = q
                   ELSE IF job.cancel_requested
                   THEN new.status = "skipped" /\ q' = q
                   ELSE IF job.paused \/ (idx + 1) \in job.paused_items
                   THEN /\ new.status = "paused"
                        /\ InQueue = {} /\ q' = Append(q, idx)
                   ELSE new.status = "error" /\ q' = q]_vars

\* the subprocess of an item has ended with exit code 0 after cancel was
\* requested, and the worker has marked the item done
C26_DoneAfterCancelRequest ==
    \E w \in Workers :
        /\ workers[w].pc = "post" /\ workers[w].success
        /\ registered /\ job.cancel_requested
        /\ job.download_items[workers[w].idx + 1] = [status |-> "done", progress |-> 100]

C31_FinalizeAfterWorkers ==
    runner.pc \notin {"selected", "archive", "start_workers", "join"}
       => \A w \in Workers : workers[w].pc \in {"unborn", "exit"}

\* _finalize_job has been entered after a worker downloaded an item
C31_FinalizingAfterDownload ==
    /\ runner.pc = "finalize"
    /\ \A w \in Workers : workers[w].pc = "exit"
    /\ \E i \in DOMAIN job.download_items :
          job.download_items[i] = [status |-> "done", progress |-> 100]
    /\ hist.spawned

\* C32: every item index is in at most one place: once in the queue, or in
\* the hands of one worker between its popleft and the end of its third
\* critical section; and at most one running subprocess belongs to an item.
C32_IndexInOnePlace ==
    \A idx \in 0 .. (runner.urls - 1) :
        LET InQueue == {k \in 1 .. Len(q) : q[k] = idx}
            InFlight == {w \in Workers :
                           /\ workers[w].pc \in {"claim", "spawn", "track", "wait",
                                                  "classify"}
                           /\ workers[w].idx = idx}
            Running == {w \in Workers \cap alive : workers[w].idx = idx}
        IN  /\ Cardinality(InQueue) + Cardinality(InFlight) <= 1
            /\ Cardinality(Running) <= 1

\* an item that one worker gave back to the queue as paused is being
\* downloaded by another worker
C32_RequeuedItemWithOtherWorker ==
    \E w, v \in Workers :
        /\ w # v /\ q = <<>>
        /\ workers[v].pc = "post" /\ ~workers[v].success
        /\ workers[w].pc = "wait" /\ w \in alive /\ workers[w].idx = 0
        /\ job.download_items[1].status = "downloading"

\* C33: when _finalize_job finds the job registered and not canceled, the
\* queue is empty and every item is done or error.
C33_NothingLeftAtFinalize ==
    [][(runner.pc = "finalize" /\ runner'.pc = "move")
          => /\ q = <<>>
             /\ \A i \in DOMAIN job.download_items :
                   job.download_items[i].status \in {"done", "error"}]_vars

\* _finalize_job has found the job not canceled, after two calls of the
\* public API the last of which was resume_job, with every item downloaded
C33_FinalizedAfterPauseAndResume ==
    /\ runner.pc = "move" /\ registered /\ ~job.cancel_requested
    /\ hist.ops = 2 /\ job.message = "resumed" /\ hist.spawned
    /\ q = <<>>
    /\ \A i \in DOMAIN job.download_items : job.download_items[i].status = "done"

C35_ProgressInRange ==
    registered
       => /\ 0 <= job.progress /\ job.progress <= Full
          /\ job.status = "done" => job.progress = Full

\* the job is done after a line with 150 percent was read
C35_DoneAfterOddPercent ==
    /\ registered /\ job.status = "done" /\ job.progress = Full
    /\ job.current_item_progress = 150

\* C36: once delete_job has returned, no subprocess of the job is started
\* and the directory of the job is not created again.
C36_NothingAfterDelete ==
    [][hist.deleted
          => /\ alive' \subseteq alive
             /\ disk'.job_dir => disk.job_dir]_vars

\* C37: once delete_job has returned and the table has no row of the job,
\* no step of the job writes a row of it.
C37_DeletedStaysAbsent ==
    [][(hist.deleted /\ db = NoRow) => db' = NoRow]_vars

\* C38: while cancel_requested of the registered job is set, no subprocess
\* of the job is started.
C38_NoSpawnAfterCancel ==
    [][(registered /\ job.cancel_requested) => alive' \subseteq alive]_vars

\* C39: a registered job whose download pause_job has stopped, that is
\* paused, not canceled and not in a terminal status, does not go to error or
\* canceled by a step that leaves it paused and not canceled.
C39_PausedJobNotFailed ==
    [][(/\ registered /\ registered'
        /\ hist.pause_signalled \/ hist.pause_killed # {}
        /\ job.paused /\ ~job.cancel_requested
        /\ job'.paused /\ ~job'.cancel_requested
        /\ job.status \notin Terminal)
          => job'.status \notin {"error", "canceled"}]_vars
====
